---- MODULE Spec2Model ----
(***************************************************************************)
(* Universal paths of the watcher crate (src/watcher/src/lib.rs): parsing  *)
(* from native path strings and from URIs, lexical manipulation and        *)
(* serialisation back to a URI; and the storage contract with its local    *)
(* implementation (src/watcher/src/storage.rs, backends/local.rs).         *)
(*                                                                         *)
(* A string is a sequence of one-character strings, so that splitting,     *)
(* joining, prefix stripping and byte offsets are computed as the code     *)
(* computes them.  Option<T> is a sequence of length 0 (None) or 1 (Some). *)
(***************************************************************************)
EXTENDS Integers, Sequences, FiniteSets, TLC

VARIABLES p, live, op, arg, ret, old, fs, calls

vars == <<p, live, op, arg, ret, old, fs, calls>>

\* The native filesystem and the storage calls in flight.
svars == <<fs, calls>>

\* The universal path under construction and the last call on it.
pvars == <<p, live, op, arg, ret, old>>

(***************************************************************************)
(* Bounds of the model.                                                    *)
(***************************************************************************)
MaxLen == 3
MaxSegs == 2
\* Longest file of the native filesystem, in bytes.
MaxFile == 2

(***************************************************************************)
(* Characters.                                                             *)
(***************************************************************************)
Lowers == {"a", "b", "c", "e", "f", "h", "i", "l", "m", "p", "s", "t", "x", "y"}
Uppers == {"F", "X"}
Digits == {"0", "1", "2", "3", "4", "5", "6", "7", "8", "9"}
NonAscii == {"é"}

\* UTF-8 width of a character, in bytes ("é" is U+00E9: two bytes).
ByteLen(c) == IF c \in NonAscii THEN 2 ELSE 1

\* char::to_lowercase on the characters of the model.
LowerChar(c) == CASE c = "F" -> "f" [] c = "X" -> "x" [] OTHER -> c

to_lowercase(s) == [i \in 1..Len(s) |-> LowerChar(s[i])]

IsSep(c) == c = "/" \/ c = "\\"

None == <<>>
Some(x) == <<x>>

(***************************************************************************)
(* Generic string helpers (std::str).                                      *)
(***************************************************************************)
Drop(s, n) == SubSeq(s, n + 1, Len(s))

StartsWith(s, pre) == Len(s) >= Len(pre) /\ SubSeq(s, 1, Len(pre)) = pre

\* str::len: the length in bytes.
RECURSIVE ByteLenOf(_)
ByteLenOf(s) == IF s = <<>> THEN 0 ELSE ByteLen(s[1]) + ByteLenOf(Tail(s))

\* Index (1-based, in characters) of the first occurrence of c, 0 if none.
RECURSIVE FindFrom(_, _, _)
FindFrom(s, c, i) ==
    IF i > Len(s) THEN 0
    ELSE IF s[i] = c THEN i
    ELSE FindFrom(s, c, i + 1)

\* str::find(c): the byte offset of the first occurrence, None if absent.
find(s, c) ==
    LET i == FindFrom(s, c, 1)
    IN  IF i = 0 THEN None ELSE Some(ByteLenOf(SubSeq(s, 1, i - 1)))

\* str::split on the separator closure: the pieces between separators, empty
\* ones kept.
RECURSIVE SplitAcc(_, _, _)
SplitAcc(s, cur, acc) ==
    IF s = <<>> THEN Append(acc, cur)
    ELSE IF IsSep(s[1]) THEN SplitAcc(Tail(s), <<>>, Append(acc, cur))
    ELSE SplitAcc(Tail(s), Append(cur, s[1]), acc)

split(s) == SplitAcc(s, <<>>, <<>>)

\* [String]::join(sep)
RECURSIVE JoinWith(_, _)
JoinWith(segs, sep) ==
    IF segs = <<>> THEN <<>>
    ELSE IF Len(segs) = 1 THEN segs[1]
    ELSE segs[1] \o sep \o JoinWith(Tail(segs), sep)

\* str::strip_prefix(c)
strip_prefix(s, c) ==
    IF s # <<>> /\ s[1] = c THEN Some(Tail(s)) ELSE None

(***************************************************************************)
(* UniversalPath: splitting and joining.                                   *)
(***************************************************************************)
\* Faulty variant of split_path_segments: empty pieces are not filtered out.
split_path_segments_unfiltered(path) ==
    LET a == strip_prefix(path, "/")
        b == IF a # None THEN a ELSE strip_prefix(path, "\\")
        stripped == IF b # None THEN b[1] ELSE path
    IN  split(stripped)

split_path_segments(path) ==
    LET a == strip_prefix(path, "/")
        b == IF a # None THEN a ELSE strip_prefix(path, "\\")
        stripped == IF b # None THEN b[1] ELSE path
    IN  SelectSeq(split(stripped), LAMBDA s : s # <<>>)

\* Faulty variant of split_path_local: the drive marker is recognised by the
\* second character alone, without the byte offset of the first ':'.
split_path_local_by_char(path) ==
    IF path = <<>> THEN <<>>
    ELSE IF Len(path) >= 2 /\ path[2] = ":"
         THEN LET drive == SubSeq(path, 1, 2)
                  remaining == Drop(path, 2)
                  a == strip_prefix(remaining, "\\")
                  b == IF a # None THEN a ELSE strip_prefix(remaining, "/")
                  rest == IF b # None THEN b[1] ELSE remaining
              IN  IF remaining # <<>> /\ rest # <<>>
                  THEN <<drive>> \o split_path_segments(rest)
                  ELSE <<drive>>
    ELSE IF StartsWith(path, <<"\\", "\\">>) \/ StartsWith(path, <<"/", "/">>)
         THEN split_path_segments(Drop(path, 2))
    ELSE split_path_segments(path)

split_path_local(path) ==
    IF path = <<>> THEN <<>>
    ELSE IF /\ ByteLenOf(path) >= 2
            /\ Len(path) >= 2
            /\ path[2] = ":"
            /\ find(path, ":") = Some(1)
         THEN \* drive_end = 1: both bytes 0 and 1 are one-byte characters.
              LET drive == SubSeq(path, 1, 2)
                  remaining == Drop(path, 2)
                  a == strip_prefix(remaining, "\\")
                  b == IF a # None THEN a ELSE strip_prefix(remaining, "/")
                  rest == IF b # None THEN b[1] ELSE remaining
              IN  IF remaining # <<>> /\ rest # <<>>
                  THEN <<drive>> \o split_path_segments(rest)
                  ELSE <<drive>>
    ELSE IF StartsWith(path, <<"\\", "\\">>) \/ StartsWith(path, <<"/", "/">>)
         THEN split_path_segments(Drop(path, 2))
    ELSE split_path_segments(path)

split_path(path) ==
    IF path = <<>> \/ path = <<"/">> THEN <<>> ELSE split_path_segments(path)

join_path(segments) ==
    IF segments = <<>> THEN <<"/">> ELSE <<"/">> \o JoinWith(segments, <<"/">>)

(***************************************************************************)
(* StorageBackend.                                                         *)
(***************************************************************************)
S_file == <<"f", "i", "l", "e">>
S_smb == <<"s", "m", "b">>
S_cifs == <<"c", "i", "f", "s">>
S_ftp == <<"f", "t", "p">>
S_sftp == <<"s", "f", "t", "p">>
S_s3 == <<"s", "3">>
S_http == <<"h", "t", "t", "p">>
S_https == <<"h", "t", "t", "p", "s">>

Backend(tag) == [tag |-> tag, scheme |-> <<>>]
Other(scheme) == [tag |-> "Other", scheme |-> scheme]

Local == Backend("Local")

from_scheme(scheme) ==
    LET l == to_lowercase(scheme)
    IN  CASE l = S_file \/ l = <<>> -> Backend("Local")
          [] l = S_smb \/ l = S_cifs -> Backend("NetworkDrive")
          [] l = S_ftp -> Backend("Ftp")
          [] l = S_sftp -> Backend("Sftp")
          [] l = S_s3 -> Backend("S3")
          [] l = S_http -> Backend("Http")
          [] l = S_https -> Backend("Https")
          [] OTHER -> Other(l)

to_scheme(b) ==
    CASE b.tag = "Local" -> S_file
      [] b.tag = "NetworkDrive" -> S_smb
      [] b.tag = "Ftp" -> S_ftp
      [] b.tag = "Sftp" -> S_sftp
      [] b.tag = "S3" -> S_s3
      [] b.tag = "Http" -> S_http
      [] b.tag = "Https" -> S_https
      [] OTHER -> b.scheme

(***************************************************************************)
(* UniversalPath: the value and its lexical operations.                    *)
(***************************************************************************)
UniversalPath(b, h, pt, segs) ==
    [backend |-> b, host |-> h, port |-> pt, path_segments |-> segs]

local(path) == UniversalPath(Local, None, None, split_path_local(path))

is_root(u) == u.path_segments = <<>>

path(u) == join_path(u.path_segments)

\* Vec::pop on the segment vector: the vector afterwards.
Popped(segs) == IF segs = <<>> THEN <<>> ELSE SubSeq(segs, 1, Len(segs) - 1)

\* Vec::pop on the segment vector: the value returned.
PopValue(segs) == IF segs = <<>> THEN None ELSE Some(segs[Len(segs)])

\* Faulty variant of append: "." is pushed like any other segment.
append_no_dot(u, segment) ==
    IF segment # <<>>
    THEN IF segment = <<".", ".">>
         THEN [u EXCEPT !.path_segments = Popped(@)]
         ELSE [u EXCEPT !.path_segments = Append(@, segment)]
    ELSE u

append(u, segment) ==
    IF segment # <<>> /\ segment # <<".">>
    THEN IF segment = <<".", ".">>
         THEN [u EXCEPT !.path_segments = Popped(@)]
         ELSE [u EXCEPT !.path_segments = Append(@, segment)]
    ELSE u

\* Faulty variant of join: the copy is returned without the append.
join_without_append(u, segment) == u

join(u, segment) == append(u, segment)

pop(u) == [self |-> [u EXCEPT !.path_segments = Popped(@)],
           value |-> PopValue(u.path_segments)]

\* Faulty variant of parent: the root check is missing.
parent_unchecked(u) ==
    Some(UniversalPath(u.backend, u.host, u.port, Popped(u.path_segments)))

parent(u) ==
    IF is_root(u) THEN None
    ELSE Some(UniversalPath(u.backend, u.host, u.port, Popped(u.path_segments)))

\* Faulty variant of relative_to: the ports are not compared.
relative_to_ignoring_port(u, par) ==
    IF u.backend # par.backend THEN None
    ELSE IF u.host # par.host THEN None
    ELSE IF Len(u.path_segments) < Len(par.path_segments) THEN None
    ELSE IF \E i \in 1..Len(par.path_segments) :
                u.path_segments[i] # par.path_segments[i] THEN None
    ELSE Some(SubSeq(u.path_segments, Len(par.path_segments) + 1,
                     Len(u.path_segments)))

relative_to(u, par) ==
    IF u.backend # par.backend THEN None
    ELSE IF u.host # par.host THEN None
    ELSE IF u.port # par.port THEN None
    ELSE IF Len(u.path_segments) < Len(par.path_segments) THEN None
    ELSE IF \E i \in 1..Len(par.path_segments) :
                u.path_segments[i] # par.path_segments[i] THEN None
    ELSE Some(SubSeq(u.path_segments, Len(par.path_segments) + 1,
                     Len(u.path_segments)))

(***************************************************************************)
(* The URI library the crate parses and builds with (fluent_uri, RFC 3986  *)
(* syntax), as far as from_uri_str and to_uri use it.                      *)
(***************************************************************************)
Alpha == Lowers \cup Uppers
HexDigits == Digits \cup {"a", "b", "c", "d", "e", "f", "A", "B", "C", "D", "E", "F"}
Unreserved == Alpha \cup Digits \cup {"-", ".", "_", "~"}
SubDelims == {"!", "$", "&", "'", "(", ")", "*", "+", ",", ";", "="}
SchemeChars == Alpha \cup Digits \cup {"+", "-", "."}
RegNameChars == Unreserved \cup SubDelims
UserinfoChars == RegNameChars \cup {":"}
PathChars == Unreserved \cup SubDelims \cup {":", "@", "/"}
QueryChars == PathChars \cup {"?"}

\* Every character is allowed, or opens a well-formed percent-encoded octet.
RECURSIVE Encoded(_, _)
Encoded(s, allowed) ==
    IF s = <<>> THEN TRUE
    ELSE IF s[1] = "%"
         THEN /\ Len(s) >= 3
              /\ s[2] \in HexDigits
              /\ s[3] \in HexDigits
              /\ Encoded(Drop(s, 3), allowed)
    ELSE s[1] \in allowed /\ Encoded(Tail(s), allowed)

\* Scheme::new
ValidScheme(s) ==
    /\ s # <<>>
    /\ s[1] \in Alpha
    /\ \A i \in 1..Len(s) : s[i] \in SchemeChars

\* Index of the first character of s that is in set cs, Len(s) + 1 if none.
RECURSIVE FirstOf(_, _, _)
FirstOf(s, cs, i) ==
    IF i > Len(s) THEN i
    ELSE IF s[i] \in cs THEN i
    ELSE FirstOf(s, cs, i + 1)

\* Index of the last occurrence of c in s, 0 if none.
RECURSIVE LastOf(_, _, _)
LastOf(s, c, i) ==
    IF i = 0 THEN 0
    ELSE IF s[i] = c THEN i
    ELSE LastOf(s, c, i - 1)

DigitVal(c) ==
    CASE c = "0" -> 0 [] c = "1" -> 1 [] c = "2" -> 2 [] c = "3" -> 3
      [] c = "4" -> 4 [] c = "5" -> 5 [] c = "6" -> 6 [] c = "7" -> 7
      [] c = "8" -> 8 [] c = "9" -> 9

DigitChar(d) ==
    CASE d = 0 -> "0" [] d = 1 -> "1" [] d = 2 -> "2" [] d = 3 -> "3"
      [] d = 4 -> "4" [] d = 5 -> "5" [] d = 6 -> "6" [] d = 7 -> "7"
      [] d = 8 -> "8" [] d = 9 -> "9"

RECURSIVE Decimal(_, _)
Decimal(s, acc) ==
    IF s = <<>> THEN acc ELSE Decimal(Tail(s), 10 * acc + DigitVal(s[1]))

U16Max == 65535

\* Faulty variant: the number is cut to its low 16 bits.
port_to_u16_wrapping(portText) ==
    IF portText = None \/ portText[1] = <<>> THEN None
    ELSE Some(Decimal(portText[1], 0) % (U16Max + 1))

\* Authority::port_to_u16 followed by .ok() and .flatten() of from_uri: the
\* port when its text is present, non-empty and fits a u16, None otherwise.
port_to_u16(portText) ==
    IF portText = None \/ portText[1] = <<>> THEN None
    ELSE IF Decimal(portText[1], 0) > U16Max THEN None
    ELSE Some(Decimal(portText[1], 0))

\* u16 to its decimal text.
RECURSIVE ToDecimal(_)
ToDecimal(n) ==
    IF n < 10 THEN <<DigitChar(n)>>
    ELSE Append(ToDecimal(n \div 10), DigitChar(n % 10))

\* The authority text split into userinfo, host and port text.
ParseAuthority(a) ==
    LET at == FindFrom(a, "@", 1)
        hp == IF at = 0 THEN a ELSE Drop(a, at)
        col == LastOf(hp, ":", Len(hp))
        hostText == IF col = 0 THEN hp ELSE SubSeq(hp, 1, col - 1)
        portText == IF col = 0 THEN None ELSE Some(Drop(hp, col))
    IN  [ok |-> /\ (at = 0 \/ Encoded(SubSeq(a, 1, at - 1), UserinfoChars))
                /\ Encoded(hostText, RegNameChars)
                /\ (portText = None
                      \/ \A i \in 1..Len(portText[1]) : portText[1][i] \in Digits),
         host |-> hostText,
         port |-> portText]

\* Uri::parse: the components of an RFC 3986 URI (a scheme is required).
UriParse(s) ==
    LET col == FindFrom(s, ":", 1)
        scheme == SubSeq(s, 1, col - 1)
        rest == Drop(s, col)
        hash == FirstOf(rest, {"#"}, 1)
        noFrag == SubSeq(rest, 1, hash - 1)
        frag == Drop(rest, hash)
        qm == FirstOf(noFrag, {"?"}, 1)
        hier == SubSeq(noFrag, 1, qm - 1)
        query == Drop(noFrag, qm)
        hasAuth == StartsWith(hier, <<"/", "/">>)
        afterSl == Drop(hier, 2)
        aEnd == FirstOf(afterSl, {"/"}, 1)
        authText == SubSeq(afterSl, 1, aEnd - 1)
        auth == ParseAuthority(authText)
        pathText == IF hasAuth THEN Drop(afterSl, aEnd - 1) ELSE hier
    IN  IF /\ col > 0
           /\ ValidScheme(scheme)
           /\ (hasAuth => auth.ok)
           /\ Encoded(pathText, PathChars)
           /\ Encoded(query, QueryChars)
           /\ Encoded(frag, QueryChars)
        THEN [ok |-> TRUE,
              scheme |-> scheme,
              authority |-> IF hasAuth THEN Some(auth) ELSE None,
              path |-> pathText]
        ELSE [ok |-> FALSE]

(***************************************************************************)
(* UniversalPath: from and to URIs.                                        *)
(***************************************************************************)
Ok(v) == [ok |-> TRUE, val |-> v]
Err(e) == [ok |-> FALSE, err |-> e]

from_uri(uri) ==
    LET backend == from_scheme(uri.scheme)
        host == IF uri.authority = None THEN None
                ELSE Some(uri.authority[1].host)
        port == IF uri.authority = None THEN None
                ELSE port_to_u16(uri.authority[1].port)
        path_segments == split_path(uri.path)
    IN  Ok(UniversalPath(backend, host, port, path_segments))

from_uri_str(uri_str) ==
    LET uri == UriParse(uri_str)
    IN  IF ~uri.ok THEN Err("InvalidUri") ELSE from_uri(uri)

to_uri(u) ==
    LET scheme == to_scheme(u.backend)
        authority == IF u.host = None THEN <<>>
                     ELSE <<"/", "/">> \o u.host[1] \o
                          (IF u.port = None THEN <<>>
                           ELSE <<":">> \o ToDecimal(u.port[1]))
        pathText == path(u)
    IN  IF ~ValidScheme(scheme) THEN Err("InvalidUri")
        ELSE IF u.host # None /\ ~Encoded(u.host[1], RegNameChars)
             THEN Err("InvalidUri")
        ELSE IF ~Encoded(pathText, PathChars) THEN Err("InvalidUri")
        ELSE IF u.host = None /\ StartsWith(pathText, <<"/", "/">>)
             THEN Err("InvalidUri")
        ELSE Ok(scheme \o <<":">> \o authority \o pathText)

(***************************************************************************)
(* Inputs.                                                                 *)
(***************************************************************************)
LocalChars == {"a", ":", "/", "\\", "é"}

RECURSIVE StringsUpTo(_, _)
StringsUpTo(cs, n) ==
    IF n = 0 THEN {<<>>}
    ELSE LET shorter == StringsUpTo(cs, n - 1)
         IN  shorter \cup {Append(s, c) : s \in shorter, c \in cs}

\* Native path strings handed to UniversalPath::local.
LocalInputs == StringsUpTo(LocalChars, MaxLen)

\* Segment arguments of append and join.
SegArgs ==
    { <<>>, <<".">>, <<".", ".">>, <<"a">>, <<"a", "/", "b">>, <<"b", "\\">>,
      <<"/", "a">> }

UriText(scheme, auth, pathText) ==
    scheme \o <<":">> \o
    (IF auth = None THEN <<>> ELSE <<"/", "/">> \o auth[1]) \o pathText

Schemes ==
    { S_file, <<"F", "i", "l", "e">>, S_smb, S_cifs, S_ftp, S_sftp, S_s3,
      S_http, S_https, <<"x">>, <<"X", "y">> }

AuthTexts ==
    { None, Some(<<>>), Some(<<"h">>), Some(<<"h", ":", "8">>),
      Some(<<"h", ":">>), Some(<<"b", "@", "h">>) }

PathTexts ==
    { <<>>, <<"/">>, <<"/", "a">>, <<"/", "a", "/", "b">>,
      <<"/", "a", "/", "/", "b">>, <<"/", "%", "4", "1">>,
      <<"/", "a", "?", "x">> }

\* Authorities whose port is at, just above and well above the largest u16.
PortTexts ==
    { Some(<<"h", ":", "6", "5", "5", "3", "5">>),
      Some(<<"h", ":", "6", "5", "5", "3", "6">>),
      Some(<<"h", ":", "7", "0", "0", "0", "0">>) }

Malformed ==
    { <<>>, <<"a">>, <<":", "/", "/", "a">>, <<"1", ":", "/", "a">>,
      <<"x", ":", "/", "a", "\\", "b">>, <<"x", ":", "/", "/", "h", ":", "x", "/">>,
      <<"x", ":", "/", "%", "4">> }

\* URI strings handed to UniversalPath::from_uri_str.
UriInputs ==
    {UriText(s, Some(<<"h">>), <<"/", "a">>) : s \in Schemes}
      \cup {UriText(s, a, t) :
              s \in {S_file, S_s3, <<"X", "y">>}, a \in AuthTexts, t \in PathTexts}
      \cup {UriText(S_s3, a, t) : a \in PortTexts, t \in {<<>>, <<"/", "a">>}}
      \cup Malformed

\* The other path of relative_to: the receiver, its relatives, and paths
\* built by the two constructors.
Others(u) ==
    {u, join(u, <<"a">>), join(u, <<".", ".">>), local(<<"/", "a">>)}
      \cup {from_uri_str(UriText(s, a, <<"/", "a">>)).val :
              s \in {S_file, S_s3},
              a \in {Some(<<"h">>), Some(<<"b">>), Some(<<"h", ":", "8">>)}}

(***************************************************************************)
(* The native filesystem LocalStorage adapts (tokio::fs): a map from native *)
(* path strings to entries.  A native call either completes or fails with  *)
(* a hard error; fault chooses which.                                      *)
(***************************************************************************)
Missing == [kind |-> "missing", data |-> <<>>, children |-> <<>>]
File(n) == [kind |-> "file", data |-> [i \in 1..n |-> i], children |-> <<>>]
Dir(names) == [kind |-> "dir", data |-> <<>>, children |-> names]

N_a == <<"/", "a">>
N_d == <<"/", "d">>

\* A filesystem with a file /a of n bytes and a directory /d of two entries.
FsWith(n) ==
    (<<"/">> :> Dir(<<<<"a">>, <<"d">>>>))
      @@ (N_a :> File(n))
      @@ (N_d :> Dir(<<<<"x">>, <<"y">>>>))
      @@ (N_d \o <<"/", "x">> :> File(0))
      @@ (N_d \o <<"/", "y">> :> Dir(<<>>))

FileSystems == {FsWith(n) : n \in 0..MaxFile}

Lookup(fsys, pb) == IF pb \in DOMAIN fsys THEN fsys[pb] ELSE Missing

NOk(v) == [ok |-> TRUE, val |-> v]
NErr(kind) == [ok |-> FALSE, kind |-> kind]

\* A component of the path prefix of pb is a regular file.
BelowFile(fsys, pb) ==
    \E i \in 2..Len(pb) :
        pb[i] = "/" /\ Lookup(fsys, SubSeq(pb, 1, i - 1)).kind = "file"

\* tokio::fs::metadata, File::open by path: NotADirectory below a regular
\* file, NotFound for a target missing from its directory.
native_lookup(fsys, pb, fault) ==
    IF fault THEN NErr("PermissionDenied")
    ELSE IF BelowFile(fsys, pb) THEN NErr("NotADirectory")
    ELSE IF Lookup(fsys, pb).kind = "missing" THEN NErr("NotFound")
    ELSE NOk(Lookup(fsys, pb))

\* File::metadata, File::seek, read_dir, next_entry on an open handle.
native_handle(fsys, pb, fault) ==
    IF fault THEN NErr("Other") ELSE NOk(Lookup(fsys, pb))

\* The lengths one File::read at offset pos into a buffer of room bytes may
\* return: zero at end of data, else any short or full count.
ReadLengths(entry, pos, room) ==
    LET avail == IF Len(entry.data) > pos THEN Len(entry.data) - pos ELSE 0
        most == IF avail < room THEN avail ELSE room
    IN  IF most = 0 THEN {0} ELSE 1..most

(***************************************************************************)
(* StorageError and the results of storage calls.                          *)
(***************************************************************************)
NoBackend == Backend("")

SErr(e) == [ok |-> FALSE, err |-> e, kind |-> "", backend |-> NoBackend]

\* StorageError::Io wrapping the native error.
Io(kind) == [ok |-> FALSE, err |-> "Io", kind |-> kind, backend |-> NoBackend]

UnsupportedBackend(b) ==
    [ok |-> FALSE, err |-> "UnsupportedBackend", kind |-> "", backend |-> b]

\* The map_err closure of stat, read and read_range.
\* Faulty variant: the native kind is never inspected.
always_io(kind) == Io(kind)

not_found_or_io(kind) == IF kind = "NotFound" THEN SErr("NotFound") ELSE Io(kind)

(***************************************************************************)
(* LocalStorage: path translation (the build without drive letters).       *)
(***************************************************************************)
\* PathBuf::push: an absolute component replaces the path.
push(pb, seg) ==
    IF seg # <<>> /\ seg[1] = "/" THEN seg
    ELSE IF pb # <<>> /\ pb[Len(pb)] = "/" THEN pb \o seg
    ELSE pb \o <<"/">> \o seg

RECURSIVE PushAll(_, _)
PushAll(pb, segs) ==
    IF segs = <<>> THEN pb ELSE PushAll(push(pb, segs[1]), Tail(segs))

\* Faulty variant: the backend tag is not checked.
to_pathbuf_unchecked(upath) == Ok(PushAll(<<"/">>, upath.path_segments))

to_pathbuf(upath) ==
    IF upath.backend # Local THEN SErr("InvalidPath")
    ELSE Ok(PushAll(<<"/">>, upath.path_segments))

(***************************************************************************)
(* A storage call: its arguments, where it is suspended (pc), the locals   *)
(* it holds across suspension points, the native operations it has issued  *)
(* (nops) and its result.                                                  *)
(***************************************************************************)
Calls == {"c1", "c2"}

Idle ==
    [pc |-> "idle", op |-> "none", path |-> local(<<>>), start |-> 0,
     end |-> 0, pb |-> <<>>, len |-> 0, pos |-> 0, to_read |-> 0, buf |-> <<>>,
     pending |-> <<>>, entries |-> <<>>, nops |-> 0, result |-> SErr("none")]

Invoked(name, upath, s, e) ==
    [Idle EXCEPT !.op = name, !.path = upath, !.start = s, !.end = e]

Done(cs, r) == [cs EXCEPT !.pc = "done", !.result = r]

\* The call suspended on its next native operation.
Await(cs, pc) == [cs EXCEPT !.pc = pc]

\* One more native operation issued.
Issued(cs) == [cs EXCEPT !.nops = @ + 1]

(***************************************************************************)
(* LocalStorage::stat.                                                     *)
(***************************************************************************)
EntryMetadata(e) ==
    [kind |-> CASE e.kind = "dir" -> "Directory"
                [] e.kind = "file" -> "File"
                [] OTHER -> "Other",
     size_bytes |-> IF e.kind = "file" THEN Some(Len(e.data)) ELSE None]

\* A call up to its first native operation: the path translation.
Translated(cs, pc) ==
    LET pb == to_pathbuf(cs.path)
    IN  IF ~pb.ok THEN Done(cs, pb)
        ELSE Await([cs EXCEPT !.pb = pb.val], pc)

stat_begin(upath) == Translated(Invoked("stat", upath, 0, 0), "stat_metadata")

stat_metadata(cs, fsys, fault) ==
    LET md == native_lookup(fsys, cs.pb, fault)
    IN  IF ~md.ok THEN Done(Issued(cs), not_found_or_io(md.kind))
        ELSE Done(Issued(cs), Ok(EntryMetadata(md.val)))

(***************************************************************************)
(* LocalStorage::read.                                                     *)
(***************************************************************************)
read_begin(upath) == Translated(Invoked("read", upath, 0, 0), "read_open")

read_open(cs, fsys, fault) ==
    LET file == native_lookup(fsys, cs.pb, fault)
    IN  IF ~file.ok THEN Done(Issued(cs), not_found_or_io(file.kind))
        ELSE Await(Issued(cs), "read_to_end")

read_to_end(cs, fsys, fault) ==
    LET file == native_handle(fsys, cs.pb, fault)
    IN  IF ~file.ok THEN Done(Issued(cs), Io(file.kind))
        ELSE IF file.val.kind # "file" THEN Done(Issued(cs), Io("IsADirectory"))
        ELSE Done(Issued(cs), Ok(file.val.data))

(***************************************************************************)
(* LocalStorage::read_range.                                               *)
(***************************************************************************)
Min(a, b) == IF a < b THEN a ELSE b

\* Faulty variant: the path is translated before the range is inspected.
read_range_begin_translating_first(upath, s, e) ==
    LET cs == Translated(Invoked("read_range", upath, s, e), "range_open")
    IN  IF cs.pc = "done" THEN cs
        ELSE IF s >= e THEN Done(Invoked("read_range", upath, s, e), Ok(<<>>))
        ELSE cs

read_range_begin(upath, s, e) ==
    IF s >= e THEN Done(Invoked("read_range", upath, s, e), Ok(<<>>))
    ELSE Translated(Invoked("read_range", upath, s, e), "range_open")

read_range_open(cs, fsys, fault) ==
    LET file == native_lookup(fsys, cs.pb, fault)
    IN  IF ~file.ok THEN Done(Issued(cs), not_found_or_io(file.kind))
        ELSE Await(Issued(cs), "range_metadata")

\* Faulty variant: a start equal to the length is let through.
read_range_metadata_strict(cs, fsys, fault) ==
    LET md == native_handle(fsys, cs.pb, fault)
        len == Len(md.val.data)
    IN  IF ~md.ok THEN Done(Issued(cs), Io(md.kind))
        ELSE IF md.val.kind # "file" THEN Done(Issued(cs), SErr("NotAFile"))
        ELSE IF cs.start > len
             THEN Done(Issued(cs), SErr("RangeNotSatisfiable"))
        ELSE Await([Issued(cs) EXCEPT !.len = len,
                                      !.to_read = Min(cs.end, len) - cs.start],
                   "range_seek")

\* Faulty variant: the end of the range is not clamped to the length.
read_range_metadata_unclamped(cs, fsys, fault) ==
    LET md == native_handle(fsys, cs.pb, fault)
        len == Len(md.val.data)
    IN  IF ~md.ok THEN Done(Issued(cs), Io(md.kind))
        ELSE IF md.val.kind # "file" THEN Done(Issued(cs), SErr("NotAFile"))
        ELSE IF cs.start >= len
             THEN Done(Issued(cs), SErr("RangeNotSatisfiable"))
        ELSE Await([Issued(cs) EXCEPT !.len = len,
                                      !.to_read = cs.end - cs.start],
                   "range_seek")

read_range_metadata(cs, fsys, fault) ==
    LET md == native_handle(fsys, cs.pb, fault)
        len == Len(md.val.data)
    IN  IF ~md.ok THEN Done(Issued(cs), Io(md.kind))
        ELSE IF md.val.kind # "file" THEN Done(Issued(cs), SErr("NotAFile"))
        ELSE IF cs.start >= len
             THEN Done(Issued(cs), SErr("RangeNotSatisfiable"))
        ELSE Await([Issued(cs) EXCEPT !.len = len,
                                      !.to_read = Min(cs.end, len) - cs.start],
                   "range_seek")

read_range_seek(cs, fsys, fault) ==
    LET r == native_handle(fsys, cs.pb, fault)
    IN  IF ~r.ok THEN Done(Issued(cs), Io(r.kind))
        ELSE IF cs.to_read = 0 THEN Done(Issued(cs), Ok(<<>>))
        ELSE Await([Issued(cs) EXCEPT !.pos = cs.start, !.buf = <<>>],
                   "range_read")

\* Faulty variant: every turn reads at the start of the range.
read_range_read_from_start(cs, fsys, cursor, fault, n) ==
    LET data == Lookup(fsys, cs.pb).data
        got == cs.buf \o SubSeq(data, cs.start + 1, cs.start + n)
        cs1 == [Issued(cs) EXCEPT !.buf = got, !.pos = cursor + n]
    IN  IF fault THEN Done(Issued(cs), Io("Other"))
        ELSE IF n = 0 THEN Done(Issued(cs), Ok(cs.buf))
        ELSE IF Len(got) < cs.to_read THEN cs1
        ELSE Done(cs1, Ok(got))

\* Faulty variant: a failed read hands back what was accumulated so far.
read_range_read_keeping_partial(cs, fsys, cursor, fault, n) ==
    LET data == Lookup(fsys, cs.pb).data
        got == cs.buf \o SubSeq(data, cursor + 1, cursor + n)
        cs1 == [Issued(cs) EXCEPT !.buf = got, !.pos = cursor + n]
    IN  IF fault /\ cs.buf # <<>> THEN Done(Issued(cs), Ok(cs.buf))
        ELSE IF fault THEN Done(Issued(cs), Io("Other"))
        ELSE IF n = 0 THEN Done(Issued(cs), Ok(cs.buf))
        ELSE IF Len(got) < cs.to_read THEN cs1
        ELSE Done(cs1, Ok(got))

\* One turn of the accumulation loop: the read at the file's cursor returned
\* n bytes, or failed.
read_range_read(cs, fsys, cursor, fault, n) ==
    LET data == Lookup(fsys, cs.pb).data
        got == cs.buf \o SubSeq(data, cursor + 1, cursor + n)
        cs1 == [Issued(cs) EXCEPT !.buf = got, !.pos = cursor + n]
    IN  IF fault THEN Done(Issued(cs), Io("Other"))
        ELSE IF n = 0 THEN Done(Issued(cs), Ok(cs.buf))
        ELSE IF Len(got) < cs.to_read THEN cs1
        ELSE Done(cs1, Ok(got))

\* Every outcome of one turn of the loop.
read_range_reads(cs, fsys, cursor) ==
    {read_range_read(cs, fsys, cursor, TRUE, 0)}
      \cup {read_range_read(cs, fsys, cursor, FALSE, n) :
              n \in ReadLengths(Lookup(fsys, cs.pb), cursor,
                                cs.to_read - Len(cs.buf))}

(***************************************************************************)
(* LocalStorage::list.                                                     *)
(***************************************************************************)
list_begin(upath) == Translated(Invoked("list", upath, 0, 0), "list_metadata")

\* Faulty variant: list translates not-found as stat does.
list_metadata_translating(cs, fsys, fault) ==
    LET md == native_lookup(fsys, cs.pb, fault)
    IN  IF ~md.ok THEN Done(Issued(cs), not_found_or_io(md.kind))
        ELSE IF md.val.kind # "dir" THEN Done(Issued(cs), SErr("NotADirectory"))
        ELSE Await(Issued(cs), "list_read_dir")

list_metadata(cs, fsys, fault) ==
    LET md == native_lookup(fsys, cs.pb, fault)
    IN  IF ~md.ok THEN Done(Issued(cs), Io(md.kind))
        ELSE IF md.val.kind # "dir" THEN Done(Issued(cs), SErr("NotADirectory"))
        ELSE Await(Issued(cs), "list_read_dir")

list_read_dir(cs, fsys, fault) ==
    LET rd == native_handle(fsys, cs.pb, fault)
    IN  IF ~rd.ok THEN Done(Issued(cs), Io(rd.kind))
        ELSE Await([Issued(cs) EXCEPT !.pending = rd.val.children,
                                      !.entries = <<>>],
                   "list_next_entry")

list_next_entry(cs, fsys, fault) ==
    IF fault THEN Done(Issued(cs), Io("Other"))
    ELSE IF cs.pending = <<>> THEN Done(Issued(cs), Ok(cs.entries))
    ELSE [Issued(cs) EXCEPT
            !.entries = Append(@, local(push(cs.pb, cs.pending[1]))),
            !.pending = Tail(@)]

(***************************************************************************)
(* open_storage_for.                                                       *)
(***************************************************************************)
\* LocalStorage, as far as the factory's caller sees it: Storage::backend.
LocalStorage == [backend |-> Local]

\* Faulty variant: every tag is served by LocalStorage.
open_storage_for_any(upath) == Ok(LocalStorage)

open_storage_for(upath) ==
    IF upath.backend = Local THEN Ok(LocalStorage)
    ELSE UnsupportedBackend(upath.backend)

(***************************************************************************)
(* The life of one universal path: construction, then any sequence of      *)
(* operations.  op, arg and ret record the last call, old the receiver     *)
(* before it.                                                              *)
(***************************************************************************)
Init ==
    /\ p = UniversalPath(Local, None, None, <<>>)
    /\ live = FALSE
    /\ op = "none"
    /\ arg = <<>>
    /\ ret = <<>>
    /\ old = UniversalPath(Local, None, None, <<>>)
    /\ fs = FsWith(0)
    /\ calls = [c \in Calls |-> Idle]

FromLocal ==
    /\ ~live
    /\ \E s \in LocalInputs :
         /\ p' = local(s)
         /\ arg' = s
    /\ live' = TRUE
    /\ op' = "local"
    /\ ret' = p'
    /\ old' = p
    /\ UNCHANGED svars

ParseUri ==
    /\ ~live
    /\ \E s \in UriInputs :
         LET r == from_uri_str(s)
         IN  /\ arg' = s
             /\ ret' = r
             /\ live' = r.ok
             /\ p' = IF r.ok THEN r.val ELSE p
    /\ op' = "from_uri_str"
    /\ old' = p
    /\ UNCHANGED svars

AppendOp ==
    /\ live
    /\ \E x \in SegArgs :
         /\ Len(append(p, x).path_segments) <= MaxSegs
         /\ p' = append(p, x)
         /\ arg' = x
    /\ op' = "append"
    /\ ret' = p'
    /\ old' = p
    /\ UNCHANGED live
    /\ UNCHANGED svars

JoinOp ==
    /\ live
    /\ \E x \in SegArgs :
         /\ ret' = join(p, x)
         /\ arg' = x
    /\ op' = "join"
    /\ old' = p
    /\ UNCHANGED <<p, live>>
    /\ UNCHANGED svars

PopOp ==
    /\ live
    /\ p' = pop(p).self
    /\ ret' = pop(p).value
    /\ op' = "pop"
    /\ arg' = <<>>
    /\ old' = p
    /\ UNCHANGED live
    /\ UNCHANGED svars

ParentOp ==
    /\ live
    /\ ret' = parent(p)
    /\ op' = "parent"
    /\ arg' = <<>>
    /\ old' = p
    /\ UNCHANGED <<p, live>>
    /\ UNCHANGED svars

ToUriOp ==
    /\ live
    /\ ret' = to_uri(p)
    /\ op' = "to_uri"
    /\ arg' = <<>>
    /\ old' = p
    /\ UNCHANGED <<p, live>>
    /\ UNCHANGED svars

RelativeToOp ==
    /\ live
    /\ \E q \in Others(p) :
         /\ ret' = relative_to(p, q)
         /\ arg' = q
    /\ op' = "relative_to"
    /\ old' = p
    /\ UNCHANGED <<p, live>>
    /\ UNCHANGED svars

\* LocalStorage's translation of the path into the native path it opens.
ToPathbufOp ==
    /\ live
    /\ ret' = to_pathbuf(p)
    /\ op' = "to_pathbuf"
    /\ arg' = <<>>
    /\ old' = p
    /\ UNCHANGED <<p, live>>
    /\ UNCHANGED svars

Next ==
    \/ FromLocal
    \/ ParseUri
    \/ AppendOp
    \/ JoinOp
    \/ PopOp
    \/ ParentOp
    \/ ToUriOp
    \/ RelativeToOp
    \/ ToPathbufOp

Spec == Init /\ [][Next]_vars

(***************************************************************************)
(* Concurrent storage calls against one filesystem.  Each call of Calls    *)
(* is one invocation of a Storage function; it advances by one native      *)
(* operation at a time, and the calls interleave at those points.          *)
(***************************************************************************)
P_file == local(<<"/", "a">>)
P_dir == local(<<"/", "d">>)
P_missing == local(<<"/", "m">>)
P_below_file == local(<<"/", "a", "/", "x">>)
P_s3 == UniversalPath(Backend("S3"), Some(<<"h">>), None, <<<<"a">>>>)
P_other == UniversalPath(Other(<<"x">>), None, None, <<<<"a">>>>)

CallPaths == {P_file, P_dir, P_missing, P_below_file, P_s3}
OpenPaths == CallPaths \cup {P_other}
Ranges == (0..MaxFile) \X (0..(MaxFile + 1))

\* Faulty variant: one cursor kept in the storage object.
SharedFilePos(c) == calls["c1"].pos

\* The cursor of the file handle call c opened.
FilePos(c) == calls[c].pos

Becomes(c, cs) ==
    /\ calls' = [calls EXCEPT ![c] = cs]
    /\ UNCHANGED <<fs, pvars>>

\* A call run with no other call in flight: its first state, its successors
\* and the results it can return.
Begin(cs) ==
    CASE cs.op = "stat" -> stat_begin(cs.path)
      [] cs.op = "read" -> read_begin(cs.path)
      [] cs.op = "read_range" -> read_range_begin(cs.path, cs.start, cs.end)
      [] cs.op = "list" -> list_begin(cs.path)
      [] OTHER -> Done(Invoked("open_storage_for", cs.path, 0, 0),
                       open_storage_for(cs.path))

Succ(cs, fsys) ==
    CASE cs.pc = "stat_metadata" ->
           {stat_metadata(cs, fsys, fault) : fault \in BOOLEAN}
      [] cs.pc = "read_open" ->
           {read_open(cs, fsys, fault) : fault \in BOOLEAN}
      [] cs.pc = "read_to_end" ->
           {read_to_end(cs, fsys, fault) : fault \in BOOLEAN}
      [] cs.pc = "range_open" ->
           {read_range_open(cs, fsys, fault) : fault \in BOOLEAN}
      [] cs.pc = "range_metadata" ->
           {read_range_metadata(cs, fsys, fault) : fault \in BOOLEAN}
      [] cs.pc = "range_seek" ->
           {read_range_seek(cs, fsys, fault) : fault \in BOOLEAN}
      [] cs.pc = "range_read" -> read_range_reads(cs, fsys, cs.pos)
      [] cs.pc = "list_metadata" ->
           {list_metadata(cs, fsys, fault) : fault \in BOOLEAN}
      [] cs.pc = "list_read_dir" ->
           {list_read_dir(cs, fsys, fault) : fault \in BOOLEAN}
      [] cs.pc = "list_next_entry" ->
           {list_next_entry(cs, fsys, fault) : fault \in BOOLEAN}
      [] OTHER -> {}

RECURSIVE Results(_, _)
Results(cs, fsys) ==
    IF cs.pc = "done" THEN {cs.result}
    ELSE UNION {Results(s, fsys) : s \in Succ(cs, fsys)}

SInit ==
    /\ p = UniversalPath(Local, None, None, <<>>)
    /\ live = FALSE
    /\ op = "none"
    /\ arg = <<>>
    /\ ret = <<>>
    /\ old = UniversalPath(Local, None, None, <<>>)
    /\ fs \in FileSystems
    /\ calls = [c \in Calls |-> Idle]

OpenStorageFor ==
    \E c \in Calls, u \in OpenPaths :
        /\ calls[c].pc = "idle"
        /\ Becomes(c, Done(Invoked("open_storage_for", u, 0, 0),
                           open_storage_for(u)))

Stat ==
    \E c \in Calls, u \in CallPaths :
        /\ calls[c].pc = "idle"
        /\ Becomes(c, stat_begin(u))

StatMetadata ==
    \E c \in Calls, fault \in BOOLEAN :
        /\ calls[c].pc = "stat_metadata"
        /\ Becomes(c, stat_metadata(calls[c], fs, fault))

Read ==
    \E c \in Calls, u \in CallPaths :
        /\ calls[c].pc = "idle"
        /\ Becomes(c, read_begin(u))

ReadOpen ==
    \E c \in Calls, fault \in BOOLEAN :
        /\ calls[c].pc = "read_open"
        /\ Becomes(c, read_open(calls[c], fs, fault))

ReadToEnd ==
    \E c \in Calls, fault \in BOOLEAN :
        /\ calls[c].pc = "read_to_end"
        /\ Becomes(c, read_to_end(calls[c], fs, fault))

ReadRange ==
    \E c \in Calls, u \in CallPaths, r \in Ranges :
        /\ calls[c].pc = "idle"
        /\ Becomes(c, read_range_begin(u, r[1], r[2]))

RangeOpen ==
    \E c \in Calls, fault \in BOOLEAN :
        /\ calls[c].pc = "range_open"
        /\ Becomes(c, read_range_open(calls[c], fs, fault))

RangeMetadata ==
    \E c \in Calls, fault \in BOOLEAN :
        /\ calls[c].pc = "range_metadata"
        /\ Becomes(c, read_range_metadata(calls[c], fs, fault))

RangeSeek ==
    \E c \in Calls, fault \in BOOLEAN :
        /\ calls[c].pc = "range_seek"
        /\ Becomes(c, read_range_seek(calls[c], fs, fault))

RangeRead ==
    \E c \in Calls :
        /\ calls[c].pc = "range_read"
        /\ \E cs \in read_range_reads(calls[c], fs, FilePos(c)) :
             Becomes(c, cs)

List ==
    \E c \in Calls, u \in CallPaths :
        /\ calls[c].pc = "idle"
        /\ Becomes(c, list_begin(u))

ListMetadata ==
    \E c \in Calls, fault \in BOOLEAN :
        /\ calls[c].pc = "list_metadata"
        /\ Becomes(c, list_metadata(calls[c], fs, fault))

ListReadDir ==
    \E c \in Calls, fault \in BOOLEAN :
        /\ calls[c].pc = "list_read_dir"
        /\ Becomes(c, list_read_dir(calls[c], fs, fault))

ListNextEntry ==
    \E c \in Calls, fault \in BOOLEAN :
        /\ calls[c].pc = "list_next_entry"
        /\ Becomes(c, list_next_entry(calls[c], fs, fault))

SNext ==
    \/ OpenStorageFor
    \/ Stat
    \/ StatMetadata
    \/ Read
    \/ ReadOpen
    \/ ReadToEnd
    \/ ReadRange
    \/ RangeOpen
    \/ RangeMetadata
    \/ RangeSeek
    \/ RangeRead
    \/ List
    \/ ListMetadata
    \/ ListReadDir
    \/ ListNextEntry

StorageSpec == SInit /\ [][SNext]_vars

(***************************************************************************)
(* Ranged reads of a file that another process truncates or extends while  *)
(* one call runs.  Every read the loop issues returns.                     *)
(***************************************************************************)
Resize ==
    /\ \E other \in FileSystems \ {fs} : fs' = other
    /\ UNCHANGED <<calls, pvars>>

\* The storage serves a single call: the second one is never invoked.
OneCall == calls'["c2"] = calls["c2"]

LoneReadRange == ReadRange /\ OneCall
LoneRangeOpen == RangeOpen /\ OneCall
LoneRangeMetadata == RangeMetadata /\ OneCall
LoneRangeSeek == RangeSeek /\ OneCall
LoneRangeRead == RangeRead /\ OneCall

ResizingNext ==
    \/ LoneReadRange
    \/ LoneRangeOpen
    \/ LoneRangeMetadata
    \/ LoneRangeSeek
    \/ LoneRangeRead
    \/ Resize

ResizingSpec == SInit /\ [][ResizingNext]_vars /\ WF_vars(LoneRangeRead)

(***************************************************************************)
(* Properties.                                                             *)
(***************************************************************************)
NoEmpty(segs) == \A i \in 1..Len(segs) : segs[i] # <<>>

NoSeparator(segs) ==
    \A i \in 1..Len(segs) : \A j \in 1..Len(segs[i]) : ~IsSep(segs[i][j])

IsPrefix(a, b) ==
    /\ Len(a) <= Len(b)
    /\ \A i \in 1..Len(a) : a[i] = b[i]

Front(segs) == [i \in 1..(Len(segs) - 1) |-> segs[i]]

SameAddress(u, v) ==
    u.backend = v.backend /\ u.host = v.host /\ u.port = v.port

\* C1: no segment of a path built by local or from_uri_str and then changed
\* by append and pop is the empty string, and neither is any segment of a
\* path that join or parent returns.
C1_NoEmptySegment ==
    /\ live => NoEmpty(p.path_segments)
    /\ (op = "join") => NoEmpty(ret.path_segments)
    /\ (op = "parent" /\ ret # None) => NoEmpty(ret[1].path_segments)

\* C1 witness: append("") was called on a path that has segments.
C1_Witness ==
    live /\ op = "append" /\ arg = <<>> /\ old.path_segments # <<>>

\* C2: no segment of a reachable path contains '/' or '\'.
C2_NoSeparatorInSegment ==
    live => NoSeparator(p.path_segments)

\* C3: rendering the path that local(s) built and parsing the rendering with
\* local again gives the same segments, for s without a ".." segment.
C3_LocalRoundTrip ==
    (op = "local" /\ \A i \in 1..Len(p.path_segments) :
                        p.path_segments[i] # <<".", ".">>)
      => local(path(p)).path_segments = p.path_segments

\* C4: whenever to_uri succeeds on a path, from_uri_str of the URI it
\* produced is that path again, in all four fields.
C4_UriRoundTrip ==
    (op = "to_uri" /\ ret.ok) => from_uri_str(ret.val) = Ok(p)

\* C5: relative_to returns a list exactly when backend, host and port are
\* equal and the other path's segments are a prefix of the receiver's; the
\* list is then the rest of the receiver's segments.
C5_RelativeTo ==
    (op = "relative_to") =>
        /\ (ret # None) <=>
             (SameAddress(p, arg) /\ IsPrefix(arg.path_segments, p.path_segments))
        /\ (ret # None) => arg.path_segments \o ret[1] = p.path_segments
        /\ (arg = p) => ret = Some(<<>>)

\* C5 witness: relative_to returned a non-empty list of segments.
C5_Witness ==
    op = "relative_to" /\ ret # None /\ ret # Some(<<>>)

\* C6: append("..") removes the last segment, or nothing from a root path;
\* append("") and append(".") change nothing; any other string becomes the
\* new last segment; backend, host, port and earlier segments stay.
C6_Append ==
    (op = "append") =>
        /\ SameAddress(p, old)
        /\ (arg = <<".", ".">> /\ old.path_segments # <<>>)
             => p.path_segments = Front(old.path_segments)
        /\ (arg = <<".", ".">> /\ old.path_segments = <<>>) => p = old
        /\ (arg = <<>> \/ arg = <<".">>) => p = old
        /\ (arg \notin {<<>>, <<".">>, <<".", ".">>})
             => p.path_segments = old.path_segments \o <<arg>>

\* C6 witness: append("..") was called on a root path.
C6_Witness ==
    op = "append" /\ arg = <<".", ".">> /\ old.path_segments = <<>>

\* C7: join(x) returns what a copy of the receiver is after append(x), and
\* leaves the receiver as it was.
C7_Join ==
    (op = "join") => (ret = append(old, arg) /\ p = old)

\* C7 witness: join returned a path that differs from its receiver.
C7_Witness ==
    op = "join" /\ arg = <<"a">> /\ ret # p

\* C8: parent returns nothing exactly for a root path, else the receiver
\* without its last segment, and leaves the receiver alone; pop removes and
\* returns the last segment, leaving what parent returns, and on a root
\* path returns nothing and changes nothing.
C8_ParentPop ==
    /\ (op = "parent") =>
         /\ p = old
         /\ (ret = None) <=> (old.path_segments = <<>>)
         /\ (ret # None) =>
              /\ SameAddress(ret[1], old)
              /\ ret[1].path_segments = Front(old.path_segments)
    /\ (op = "pop") =>
         IF old.path_segments = <<>>
         THEN ret = None /\ p = old
         ELSE /\ ret = Some(old.path_segments[Len(old.path_segments)])
              /\ Some(p) = parent(old)

\* C8 witness: pop removed the last of several segments.
C8_Witness ==
    op = "pop" /\ ret # None /\ p.path_segments # <<>>

\* The scheme token of a URI string, as written.
SchemeAsWritten(s) == SubSeq(s, 1, FindFrom(s, ":", 1) - 1)

Recognised == {S_file, S_smb, S_cifs, S_ftp, S_sftp, S_s3, S_http, S_https}

\* C9: a scheme that is none of the recognised ones gives the backend Other
\* carrying the scheme token exactly as the input wrote it.
C9_OtherVerbatim ==
    (op = "from_uri_str" /\ ret.ok
       /\ to_lowercase(SchemeAsWritten(arg)) \notin Recognised)
      => p.backend = Other(SchemeAsWritten(arg))

\* C10: a path whose backend is Local has neither host nor port.
C10_LocalHasNoAuthority ==
    (live /\ p.backend = Local) => (p.host = None /\ p.port = None)

\* The non-empty pieces of s between separators.
Pieces(s) == SelectSeq(split(s), LAMBDA x : x # <<>>)

TwoEqualSeparators(s) == Len(s) >= 2 /\ IsSep(s[1]) /\ s[2] = s[1]

\* The segments the three cases give, the drive-marker case taken when
\* isDrive holds.
LocalCases(s, isDrive) ==
    IF isDrive THEN <<SubSeq(s, 1, 2)>> \o Pieces(Drop(s, 2))
    ELSE IF TwoEqualSeparators(s) THEN Pieces(Drop(s, 2))
    ELSE Pieces(s)

\* C11 as stated: a string whose second character is ':' gives its first two
\* characters as drive marker and then the pieces of the rest, whatever the
\* first character is; a string starting with two equal separators gives the
\* pieces after them; any other string gives its pieces.
C11_DriveAnyFirstChar ==
    (op = "local") =>
        p.path_segments = LocalCases(arg, Len(arg) >= 2 /\ arg[2] = ":")

\* C11 amended: the drive-marker case is taken when the second character is
\* ':' and the first character is a one-byte character other than ':' (the
\* first ':' is at byte offset 1); a multi-byte or ':' first character falls
\* to the other two cases.
C11_DriveOneByteFirstChar ==
    (op = "local") =>
        p.path_segments =
            LocalCases(arg, /\ Len(arg) >= 2
                            /\ arg[2] = ":"
                            /\ ByteLen(arg[1]) = 1
                            /\ arg[1] # ":")

\* C11 witness: local parsed a string with a separator before ':' and more
\* text after it.
C11_Witness ==
    op = "local" /\ Len(arg) >= 3 /\ IsSep(arg[1]) /\ arg[2] = ":"
      /\ Len(p.path_segments) = 2

HexVal(c) ==
    CASE c \in Digits -> DigitVal(c)
      [] c \in {"a", "A"} -> 10 [] c \in {"b", "B"} -> 11
      [] c \in {"c", "C"} -> 12 [] c \in {"d", "D"} -> 13
      [] c \in {"e", "E"} -> 14 [] c \in {"f", "F"} -> 15

\* The character of an octet, for the octets the URI inputs encode.
OctetChar(n) ==
    CASE n = 65 -> "A" [] n = 97 -> "a" [] n = 47 -> "/" [] OTHER -> "?"

\* Percent-decoding of a well-formed encoded string.
RECURSIVE PercentDecode(_)
PercentDecode(s) ==
    IF s = <<>> THEN <<>>
    ELSE IF s[1] = "%"
         THEN <<OctetChar(16 * HexVal(s[2]) + HexVal(s[3]))>>
                \o PercentDecode(Drop(s, 3))
    ELSE <<s[1]>> \o PercentDecode(Tail(s))

\* C12: from_uri_str splits the percent-decoded path component, so an encoded
\* octet of the input shows in the segments as the decoded character; an
\* empty path and "/" give no segments.
C12_PathIsDecoded ==
    (op = "from_uri_str" /\ ret.ok) =>
        LET decoded == PercentDecode(UriParse(arg).path)
        IN  p.path_segments =
              (IF decoded = <<>> \/ decoded = <<"/">> THEN <<>>
               ELSE Pieces(decoded))

(***************************************************************************)
(* Storage properties, over StorageSpec.                                   *)
(***************************************************************************)
Completed(c, name) == calls[c].pc = "done" /\ calls[c].op = name

IsLocal(cs) == cs.path.backend = Local

\* The native entry a Local path names.
Target(cs) == Lookup(fs, to_pathbuf(cs.path).val)

Is(r, e) == ~r.ok /\ r.err = e

\* A native operation failed for a reason other than what the filesystem
\* holds (permissions, resources, the device).
Transient(r) == Is(r, "Io") /\ r.kind \in {"PermissionDenied", "Other"}

NonEmptyRange(cs) == cs.start < cs.end

\* C13: read_range with start >= end returns an empty buffer with no error
\* and issues no native operation, for every path, Local or not, existing or
\* not, and also when start is beyond the file's length.
C13_EmptyRangeNoIO ==
    \A c \in Calls :
        (Completed(c, "read_range") /\ ~NonEmptyRange(calls[c]))
          => /\ calls[c].result.ok
             /\ calls[c].result.val = <<>>
             /\ calls[c].nops = 0

C13_Witness ==
    \E c \in Calls, d \in Calls :
        /\ c # d
        /\ Completed(c, "read_range") /\ calls[c].path = P_file
        /\ calls[c].start > Len(Target(calls[c]).data)
        /\ calls[c].start = calls[c].end
        /\ calls[c].result.ok
        /\ Completed(d, "read_range") /\ calls[d].path = P_s3
        /\ calls[d].start > calls[d].end
        /\ calls[d].result.ok

\* C14 as claimed: on an existing regular file of length L, read_range with
\* start >= L returns 'range not satisfiable' (a transient native failure
\* aside), whatever the end of the range.
C14_BeyondLengthAnyRange ==
    \A c \in Calls :
        (/\ Completed(c, "read_range") /\ IsLocal(calls[c])
         /\ Target(calls[c]).kind = "file"
         /\ calls[c].start >= Len(Target(calls[c]).data))
          => \/ Is(calls[c].result, "RangeNotSatisfiable")
             \/ Transient(calls[c].result)

\* C14: on an existing regular file of length L, read_range with start < end
\* and start >= L returns 'range not satisfiable' after the open and the
\* metadata query, unless one of these two fails natively.
C14_BeyondLengthNonEmptyRange ==
    \A c \in Calls :
        (/\ Completed(c, "read_range") /\ IsLocal(calls[c])
         /\ Target(calls[c]).kind = "file"
         /\ NonEmptyRange(calls[c])
         /\ calls[c].start >= Len(Target(calls[c]).data))
          => \/ /\ Is(calls[c].result, "RangeNotSatisfiable")
                /\ calls[c].nops = 2
             \/ Transient(calls[c].result)

C14_Witness ==
    \E c \in Calls :
        /\ Completed(c, "read_range") /\ calls[c].path = P_file
        /\ NonEmptyRange(calls[c])
        /\ calls[c].start = Len(Target(calls[c]).data)
        /\ calls[c].start > 0
        /\ Is(calls[c].result, "RangeNotSatisfiable")

\* C15: on a regular file of length L, read_range with start < end and
\* start < L returns exactly the bytes at offsets start .. min(end, L) - 1,
\* in order, however the reads split the interval, unless a native operation
\* reports a hard error; reaching past the end of the file truncates.
C15_ExactBytes ==
    \A c \in Calls :
        (/\ Completed(c, "read_range") /\ IsLocal(calls[c])
         /\ Target(calls[c]).kind = "file"
         /\ NonEmptyRange(calls[c])
         /\ calls[c].start < Len(Target(calls[c]).data))
          => IF calls[c].result.ok
             THEN calls[c].result.val =
                    SubSeq(Target(calls[c]).data, calls[c].start + 1,
                           Min(calls[c].end, Len(Target(calls[c]).data)))
             ELSE Transient(calls[c].result)

\* A request past the end of a two-byte file, served by two one-byte reads.
C15_Witness ==
    \E c \in Calls :
        /\ Completed(c, "read_range") /\ calls[c].path = P_file
        /\ calls[c].end > Len(Target(calls[c]).data)
        /\ calls[c].result.ok
        /\ Len(calls[c].result.val) >= 2
        /\ calls[c].nops = 3 + Len(calls[c].result.val)

\* C16: open_storage_for returns a storage whose backend() is Local exactly
\* when the path's tag is Local, returns 'unsupported backend' carrying the
\* path's tag for every other tag, and issues no native operation.
C16_OpenStorageFor ==
    \A c \in Calls :
        Completed(c, "open_storage_for")
          => /\ calls[c].nops = 0
             /\ calls[c].result.ok = IsLocal(calls[c])
             /\ IF calls[c].result.ok
                THEN calls[c].result.val.backend = Local
                ELSE /\ Is(calls[c].result, "UnsupportedBackend")
                     /\ calls[c].result.backend = calls[c].path.backend

C16_Witness ==
    \E c \in Calls, d \in Calls :
        /\ Completed(c, "open_storage_for") /\ calls[c].path = P_file
        /\ calls[c].result.ok
        /\ Completed(d, "open_storage_for") /\ calls[d].path = P_other
        /\ calls[d].result = UnsupportedBackend(Other(<<"x">>))

\* The calls whose first native operation is translated by kind: stat's
\* metadata query, the open of read and of read_range with start < end.
Translating(c) ==
    /\ calls[c].pc = "done"
    /\ calls[c].op \in {"stat", "read", "read_range"}
    /\ IsLocal(calls[c])
    /\ calls[c].op = "read_range" => NonEmptyRange(calls[c])

C18_List ==
    \A c \in Calls :
        (Completed(c, "list") /\ IsLocal(calls[c]))
          => /\ Target(calls[c]).kind = "file"
                  => Is(calls[c].result, "NotADirectory")
                       \/ Transient(calls[c].result)
             /\ (~calls[c].result.ok /\ Target(calls[c]).kind # "file")
                  => Is(calls[c].result, "Io")
             /\ (~calls[c].result.ok /\ calls[c].path = P_missing)
                  => calls[c].result = Io("NotFound")
                       \/ Transient(calls[c].result)
             /\ calls[c].result.ok
                  => \A i \in 1..Len(calls[c].result.val) :
                        /\ calls[c].result.val[i].backend = Local
                        /\ calls[c].result.val[i].host = None
                        /\ calls[c].result.val[i].port = None

C18_Witness ==
    \E c \in Calls, d \in Calls :
        /\ Completed(c, "list") /\ calls[c].path = P_dir
        /\ calls[c].result.ok
        /\ Len(calls[c].result.val) = 2
        /\ Completed(d, "list") /\ calls[d].path = P_missing
        /\ calls[d].result = Io("NotFound")

StorageOps == {"stat", "read", "read_range", "list"}

\* C19 as claimed: every LocalStorage operation on a path whose tag is not
\* Local, read_range with any range included, returns 'invalid path' before
\* any native operation.
C19_NonLocalAnyRange ==
    \A c \in Calls :
        (/\ calls[c].pc = "done" /\ calls[c].op \in StorageOps
         /\ ~IsLocal(calls[c]))
          => /\ Is(calls[c].result, "InvalidPath")
             /\ calls[c].nops = 0

\* C19: stat, read, list, and read_range with start < end, on a path whose
\* tag is not Local return 'invalid path' before any native operation.
C19_NonLocalInvalidPath ==
    \A c \in Calls :
        (/\ calls[c].pc = "done" /\ calls[c].op \in StorageOps
         /\ ~IsLocal(calls[c])
         /\ calls[c].op = "read_range" => NonEmptyRange(calls[c]))
          => /\ Is(calls[c].result, "InvalidPath")
             /\ calls[c].nops = 0

C19_Witness ==
    \E c \in Calls, d \in Calls :
        /\ Completed(c, "read_range") /\ calls[c].path = P_s3
        /\ NonEmptyRange(calls[c])
        /\ Is(calls[c].result, "InvalidPath")
        /\ Completed(d, "list") /\ calls[d].path = P_s3
        /\ Is(calls[d].result, "InvalidPath")

\* C20: with the filesystem fixed, a call interleaved with another call
\* returns a result it can return when run alone, and two calls of the same
\* function with the same arguments that meet no transient native failure
\* return the same result.
C20_SameAsAlone ==
    /\ \A c \in Calls :
          (calls[c].pc = "done" /\ calls[c].op \in StorageOps)
            => calls[c].result \in Results(Begin(calls[c]), fs)
    /\ \A c \in Calls, d \in Calls :
          (/\ calls[c].pc = "done" /\ calls[d].pc = "done"
           /\ calls[c].op \in StorageOps /\ calls[d].op = calls[c].op
           /\ calls[d].path = calls[c].path
           /\ calls[d].start = calls[c].start /\ calls[d].end = calls[c].end
           /\ ~Transient(calls[c].result) /\ ~Transient(calls[d].result))
            => calls[d].result = calls[c].result

\* One ranged read has completed while another on the same file is between
\* two of its reads.
C20_Witness ==
    /\ Completed("c1", "read_range") /\ calls["c1"].path = P_file
    /\ calls["c1"].result.ok /\ Len(calls["c1"].result.val) = 2
    /\ calls["c2"].pc = "range_read" /\ calls["c2"].path = P_file
    /\ calls["c2"].pos = 1 /\ calls["c2"].start = 0

\* The points of read_range after the open: the metadata query, the seek
\* and the reads of the loop.
InRange(cs) == cs.pc \in {"range_metadata", "range_seek", "range_read"}

\* The call as a hard error of its pending native operation leaves it.
Failed(cs) == Done(Issued(cs), Io("Other"))

HardErrorEnds ==
    \A c \in Calls :
        /\ calls[c].pc = "range_metadata"
             => read_range_metadata(calls[c], fs, TRUE) = Failed(calls[c])
        /\ calls[c].pc = "range_seek"
             => read_range_seek(calls[c], fs, TRUE) = Failed(calls[c])
        /\ calls[c].pc = "range_read"
             => /\ read_range_read(calls[c], fs, FilePos(c), TRUE, 0)
                     = Failed(calls[c])
                /\ Failed(calls[c])
                     \in read_range_reads(calls[c], fs, FilePos(c))

NothingAfterTheEnd ==
    \A c \in Calls :
        /\ calls[c].pc = "done" => calls'[c] = calls[c]
        /\ (InRange(calls[c]) /\ calls'[c] # calls[c]
              /\ calls'[c].pc = "done" /\ Is(calls'[c].result, "Io"))
             => /\ calls'[c] = Failed(calls[c])
                /\ calls'[c].nops = calls[c].nops + 1

\* C21: in read_range a hard error of the metadata query, of the seek or of
\* a read ends the call with that error: the step that failed is the last
\* native operation of the call, a finished call never moves again, and the
\* result is the error alone, without the bytes accumulated before it.
C21_HardErrorEndsCall == []HardErrorEnds /\ [][NothingAfterTheEnd]_vars

\* A read failed after an earlier read had delivered a byte.
C21_Witness ==
    \E c \in Calls :
        /\ Completed(c, "read_range")
        /\ calls[c].result = Io("Other")
        /\ Len(calls[c].buf) >= 1
        /\ calls[c].nops = 4 + Len(calls[c].buf)

\* The components of a native path on a platform whose only separator is
\* '/': the non-empty runs between separators.
RECURSIVE ComponentsAcc(_, _, _)
ComponentsAcc(pb, cur, acc) ==
    IF pb = <<>> THEN (IF cur = <<>> THEN acc ELSE Append(acc, cur))
    ELSE IF pb[1] = "/"
         THEN ComponentsAcc(Tail(pb), <<>>,
                            IF cur = <<>> THEN acc ELSE Append(acc, cur))
         ELSE ComponentsAcc(Tail(pb), Append(cur, pb[1]), acc)

Components(pb) == ComponentsAcc(pb, <<>>, <<>>)

\* '/' followed by the segments in order.
Rooted(segs) == <<"/">> \o JoinWith(segs, <<"/">>)

\* C22: the native path built for a Local path with segments s1..sn is '/'
\* followed by s1, ..., sn in order, and each segment is exactly one
\* component of it.
C22_NativePathVerbatim ==
    (op = "to_pathbuf" /\ old.backend = Local)
      => /\ ret.ok
         /\ ret.val = Rooted(old.path_segments)
         /\ Components(ret.val) = old.path_segments

\* The bound of the loop: min(end, length at the metadata query) - start.
LoopBound(cs) == Min(cs.end, cs.len) - cs.start

\* The reads the loop of a call has issued: its native operations after the
\* open, the metadata query and the seek.
ReadsIssued(cs) == cs.nops - 3

PastSeek(cs) ==
    cs.op = "read_range" /\ cs.pc \in {"range_read", "done"} /\ cs.nops >= 3

AccumulationBounded ==
    \A c \in Calls :
        PastSeek(calls[c])
          => /\ Len(calls[c].buf) <= LoopBound(calls[c])
             /\ calls[c].pc = "range_read"
                  => /\ ReadsIssued(calls[c]) <= Len(calls[c].buf)
                     /\ Len(calls[c].buf) < LoopBound(calls[c])
             /\ calls[c].pc = "done"
                  => /\ ReadsIssued(calls[c]) <= Len(calls[c].buf) + 1
                     /\ IF calls[c].result.ok
                        THEN calls[c].result.val = calls[c].buf
                        ELSE calls[c].result = Io("Other")

\* C23: while the file is truncated or extended during the call, the loop of
\* read_range holds at most min(end, length at the metadata query) - start
\* bytes, every read but the last adds at least one byte, the buffer returned
\* is within that bound, and the loop ends when every read returns.
C23_LoopTerminatesBounded ==
    /\ []AccumulationBounded
    /\ \A c \in Calls : (calls[c].pc = "range_read") ~> (calls[c].pc = "done")

\* The file was truncated under the call: a buffer shorter than the bound,
\* returned without error after a zero-length read.
C23_Witness ==
    \E c \in Calls :
        /\ PastSeek(calls[c]) /\ calls[c].pc = "done"
        /\ calls[c].result.ok
        /\ Len(calls[c].result.val) >= 1
        /\ Len(calls[c].result.val) < LoopBound(calls[c])
        /\ ReadsIssued(calls[c]) = Len(calls[c].buf) + 1

\* The port text of a parsed URI is there but names no u16: it is empty or
\* a number above 65535.
PortUnusable(uri) ==
    /\ uri.ok
    /\ uri.authority # None
    /\ uri.authority[1].port # None
    /\ \/ uri.authority[1].port[1] = <<>>
       \/ Decimal(uri.authority[1].port[1], 0) > U16Max

\* Two URI strings that differ in nothing but their unusable ports.
DifferOnlyInPort(s1, s2) ==
    /\ PortUnusable(UriParse(s1))
    /\ PortUnusable(UriParse(s2))
    /\ UriParse(s1).scheme = UriParse(s2).scheme
    /\ UriParse(s1).authority[1].host = UriParse(s2).authority[1].host
    /\ UriParse(s1).path = UriParse(s2).path

\* C24: a URI whose port text is empty or above 65535 parses successfully to
\* a path without port; every URI differing from it only in such a port
\* parses to the same path; to_uri of the path writes no port.
C24_PortOutOfRange ==
    (op = "from_uri_str" /\ PortUnusable(UriParse(arg)))
      => /\ ret.ok
         /\ ret.val.port = None
         /\ \A s \in UriInputs :
               DifferOnlyInPort(arg, s) => from_uri_str(s) = ret
         /\ to_uri(ret.val).ok
              => UriParse(to_uri(ret.val).val).authority[1].port = None

C24_Witness ==
    /\ op = "from_uri_str"
    /\ arg = UriText(S_s3, Some(<<"h", ":", "7", "0", "0", "0", "0">>),
                     <<"/", "a">>)
    /\ ret.ok
    /\ ret.val.port = None
    /\ ret.val.host = Some(<<"h">>)
    /\ to_uri(ret.val) = Ok(UriText(S_s3, Some(<<"h">>), <<"/", "a">>))

====
